---- MODULE Spec2Model ----
(***************************************************************************)
(* A model of gym_multigrid/grid.py: the Grid cell store, its geometry     *)
(* operations, the encoder, the tile cache and the visibility sweep.       *)
(*                                                                         *)
(* A grid is the record [width, height, grid] of the class, grid being the *)
(* flat row-major list of cells (index j * width + i, here 1-based).       *)
(* A cell is None or a world object; world objects are external to         *)
(* grid.py and are named by their type.                                    *)
(***************************************************************************)
EXTENDS Integers, Sequences, FiniteSets, TLC

VARIABLES grid, call, ret, old, tile_cache, done

vars == <<grid, call, ret, old, tile_cache, done>>

(***************************************************************************)
(* Bounds of the model.                                                    *)
(***************************************************************************)
MaxWidth == 4
MaxHeight == 3
MaxObjs == 2
MaxFewObjs == 1
MaxCalls == 2

(***************************************************************************)
(* Program constants.                                                      *)
(***************************************************************************)
\* assert width >= 3 / assert height >= 3
MinDim == 3
\* subdivs: int = 3
DefaultSubdivs == 3

(***************************************************************************)
(* World objects and world configurations (object.py, world.py).           *)
(***************************************************************************)
None == "None"
ObjTypes == {"wall", "ball"}
Cells == {None} \cup ObjTypes

\* WorldObj.see_behind(): a wall is opaque, every other object is not.
see_behind(cell) == cell # "wall"

\* Python truthiness of a cell: None is falsy, a world object is truthy.
Truthy(cell) == cell # None

\* World configurations: encode_dim, the object index table, the number of
\* colours of IDX_TO_COLOR.
Worlds ==
    { [encode_dim |-> d,
       OBJECT_TO_IDX |-> [empty |-> e, wall |-> e + 1, ball |-> e + 2],
       ncolors |-> 6] : d \in {3, 6}, e \in {0, 1} }

Zeros(n) == [k \in 1..n |-> 0]

\* WorldObj.encode(world): (type index, colour index, 0), zero-padded to
\* encode_dim channels.
ObjEncode(world, cell) ==
    [k \in 1..world.encode_dim |->
        IF k = 1 THEN world.OBJECT_TO_IDX[cell] ELSE 0]

(***************************************************************************)
(* Results of calls: a value, or the exception the call raised.            *)
(***************************************************************************)
Ok(v) == [err |-> "none", val |-> v]
Raise(e) == [err |-> e, val |-> <<>>]

\* an optional argument: <<>> is None, <<v>> is the value v
NoArg == <<>>
Some(v) == <<v>>

(***************************************************************************)
(* Cell store.                                                             *)
(***************************************************************************)
\* Grid.__init__
Grid(width, height) ==
    IF width >= MinDim /\ height >= MinDim
    THEN Ok([width |-> width, height |-> height,
             grid |-> [k \in 1..(width * height) |-> None]])
    ELSE Raise("AssertionError")

InBounds(g, i, j) == i >= 0 /\ i < g.width /\ j >= 0 /\ j < g.height

\* Grid.get, for coordinates that satisfy its assertions
get(g, i, j) == g.grid[j * g.width + i + 1]

\* Grid.set
set(g, i, j, v) ==
    IF InBounds(g, i, j)
    THEN Ok([g EXCEPT !.grid[j * g.width + i + 1] = v])
    ELSE Raise("AssertionError")

Coords(g) == (0..(g.width - 1)) \X (0..(g.height - 1))

Occupied(g) == {p \in Coords(g) : get(g, p[1], p[2]) # None}

(***************************************************************************)
(* Visibility sweep.                                                       *)
(***************************************************************************)
\* Mutant of Blocks: the sweep sees through every cell.
Blocks_never(cell) == FALSE

\* `if cell and not cell.see_behind(): continue`
Blocks(cell) == Truthy(cell) /\ ~see_behind(cell)

\* body of the forward loop of process_vis at (i, j)
StepFwd(g, mask, i, j) ==
    IF ~mask[<<i, j>>] THEN mask
    ELSE IF Blocks(get(g, i, j)) THEN mask
    ELSE LET m1 == [mask EXCEPT ![<<i + 1, j>>] = TRUE]
         IN  IF j > 0
             THEN [m1 EXCEPT ![<<i + 1, j - 1>>] = TRUE, ![<<i, j - 1>>] = TRUE]
             ELSE m1

\* Mutant of StepBwd: the backward pass marks the row above only, not the
\* cell to the left.
StepBwd_noside(g, mask, i, j) ==
    IF ~mask[<<i, j>>] THEN mask
    ELSE IF get(g, i, j) # None /\ ~see_behind(get(g, i, j)) THEN mask
    ELSE IF j > 0
         THEN [mask EXCEPT ![<<i - 1, j - 1>>] = TRUE, ![<<i, j - 1>>] = TRUE]
         ELSE mask

\* body of the backward loop of process_vis at (i, j)
StepBwd(g, mask, i, j) ==
    IF ~mask[<<i, j>>] THEN mask
    ELSE IF Blocks(get(g, i, j)) THEN mask
    ELSE LET m1 == [mask EXCEPT ![<<i - 1, j>>] = TRUE]
         IN  IF j > 0
             THEN [m1 EXCEPT ![<<i - 1, j - 1>>] = TRUE, ![<<i, j - 1>>] = TRUE]
             ELSE m1

RECURSIVE FwdPass(_, _, _, _)
\* for i in range(0, grid.width - 1)
FwdPass(g, mask, i, j) ==
    IF i > g.width - 2 THEN mask
    ELSE FwdPass(g, StepFwd(g, mask, i, j), i + 1, j)

RECURSIVE BwdPass(_, _, _, _)
\* for i in reversed(range(1, grid.width))
BwdPass(g, mask, i, j) ==
    IF i < 1 THEN mask
    ELSE BwdPass(g, StepBwd(g, mask, i, j), i - 1, j)

RECURSIVE Sweep(_, _, _)
\* for j in reversed(range(0, grid.height))
Sweep(g, mask, j) ==
    IF j < 0 THEN mask
    ELSE Sweep(g, BwdPass(g, FwdPass(g, mask, 0, j), g.width - 1, j), j - 1)

\* Mutant of PruneCell: the test of the mask is inverted.
PruneCell_inverted(mask, p, v) == IF mask[p] THEN None ELSE v

\* `if not mask[i, j]: grid.set(i, j, None)` for one cell
PruneCell(mask, p, v) == IF ~mask[p] THEN None ELSE v

\* the pruning loops of process_vis
Prune(g, mask) ==
    [g EXCEPT !.grid =
        [k \in 1..(g.width * g.height) |->
            PruneCell(mask, <<(k - 1) % g.width, (k - 1) \div g.width>>, g.grid[k])]]

\* Grid.process_vis: the pruned grid and the mask returned
process_vis(g, agent_pos) ==
    LET mask0 == [p \in Coords(g) |-> p = agent_pos]
        mask == Sweep(g, mask0, g.height - 1)
    IN  [grid |-> Prune(g, mask), mask |-> mask]

(***************************************************************************)
(* Geometry operations.                                                    *)
(***************************************************************************)
\* The outcome of a mutating call: the exception raised, if any, and the grid
\* as the call left it (the cells set before an exception stay set).
Done(g) == [err |-> "none", g |-> g]
Failed(e, g) == [err |-> e, g |-> g]

\* An argument bound to the parameter `world`: a world configuration, or
\* whatever else the caller passed in that position.
WorldArg(world) == [kind |-> "world", world |-> world]
IntArg(n) == [kind |-> "int", n |-> n]

\* Wall(world), the default obj_type. Given a world configuration it builds an
\* opaque wall; given anything else it either raises or builds the wall all
\* the same, as the constructor (object.py) decides: `lenient`.
Wall(world, lenient) ==
    IF world.kind = "world" \/ lenient THEN Ok("wall") ELSE Raise("AttributeError")

RECURSIVE HorzLoop(_, _, _, _, _, _, _)
\* for i in range(0, length): self.set(x + i, y, obj_type(world)), from i on
HorzLoop(g, world, x, y, length, i, lenient) ==
    IF i >= length THEN Done(g)
    ELSE LET v == Wall(world, lenient)
         IN  IF v.err # "none" THEN Failed(v.err, g)
             ELSE LET r == set(g, x + i, y, v.val)
                  IN  IF r.err # "none" THEN Failed(r.err, g)
                      ELSE HorzLoop(r.val, world, x, y, length, i + 1, lenient)

\* Grid.horz_wall(world, x, y, length=None)
horz_wall(g, world, x, y, length, lenient) ==
    HorzLoop(g, world, x, y,
             IF length = NoArg THEN g.width - x ELSE length[1], 0, lenient)

RECURSIVE VertLoop(_, _, _, _, _, _, _)
\* for j in range(0, length): self.set(x, y + j, obj_type(world)), from j on
VertLoop(g, world, x, y, length, j, lenient) ==
    IF j >= length THEN Done(g)
    ELSE LET v == Wall(world, lenient)
         IN  IF v.err # "none" THEN Failed(v.err, g)
             ELSE LET r == set(g, x, y + j, v.val)
                  IN  IF r.err # "none" THEN Failed(r.err, g)
                      ELSE VertLoop(r.val, world, x, y, length, j + 1, lenient)

\* Grid.vert_wall(world, x, y, length=None)
vert_wall(g, world, x, y, length, lenient) ==
    VertLoop(g, world, x, y,
             IF length = NoArg THEN g.height - y ELSE length[1], 0, lenient)

\* Grid.wall_rect(x, y, w, h). Its four calls pass three positional arguments
\* to horz_wall(world, x, y, length=None) and vert_wall(world, x, y,
\* length=None): the first lands in `world`, the second in `x`, the third in
\* `y`, and `length` keeps its default.
wall_rect(g, x, y, w, h, lenient) ==
    LET r1 == horz_wall(g, IntArg(x), y, w, NoArg, lenient)
        r2 == horz_wall(r1.g, IntArg(x), y + h - 1, w, NoArg, lenient)
        r3 == vert_wall(r2.g, IntArg(x), y, h, NoArg, lenient)
        r4 == vert_wall(r3.g, IntArg(x + w - 1), y, h, NoArg, lenient)
    IN  IF r1.err # "none" THEN r1
        ELSE IF r2.err # "none" THEN r2
        ELSE IF r3.err # "none" THEN r3
        ELSE r4

\* Mutant of RotTarget: the cell is transposed, not rotated.
RotTarget_transpose(newHeight, i, j) == <<j, i>>

\* `grid.set(j, grid.height - 1 - i, v)`: where rotate_left puts cell (i, j)
RotTarget(newHeight, i, j) == <<j, newHeight - 1 - i>>

RECURSIVE RotLoop(_, _, _)
\* the loops of rotate_left, i outer and j inner, from the k-th cell on
RotLoop(self, g, k) ==
    IF k >= self.width * self.height THEN Ok(g)
    ELSE LET i == k \div self.height
             j == k % self.height
             t == RotTarget(g.height, i, j)
             r == set(g, t[1], t[2], get(self, i, j))
         IN  IF r.err # "none" THEN r ELSE RotLoop(self, r.val, k + 1)

\* Grid.rotate_left
rotate_left(self) ==
    LET g == Grid(self.height, self.width)
    IN  IF g.err # "none" THEN g ELSE RotLoop(self, g.val, 0)

\* Mutant of SliceCell: the test of the source's bounds is dropped for the
\* upper edges.
SliceCell_lowonly(self, world, x, y) ==
    IF x >= 0 /\ y >= 0
    THEN IF InBounds(self, x, y) THEN Ok(get(self, x, y)) ELSE Raise("AssertionError")
    ELSE Wall(WorldArg(world), FALSE)

\* the cell slice takes for source coordinate (x, y)
SliceCell(self, world, x, y) ==
    IF x >= 0 /\ x < self.width /\ y >= 0 /\ y < self.height
    THEN Ok(get(self, x, y))
    ELSE Wall(WorldArg(world), FALSE)

RECURSIVE SliceLoop(_, _, _, _, _, _)
\* the loops of slice, j outer and i inner, from the k-th cell on
SliceLoop(self, world, topX, topY, g, k) ==
    IF k >= g.width * g.height THEN Ok(g)
    ELSE LET i == k % g.width
             j == k \div g.width
             v == SliceCell(self, world, topX + i, topY + j)
         IN  IF v.err # "none" THEN v
             ELSE LET r == set(g, i, j, v.val)
                  IN  IF r.err # "none" THEN r
                      ELSE SliceLoop(self, world, topX, topY, r.val, k + 1)

\* Grid.slice(world, topX, topY, width, height)
slice(self, world, topX, topY, width, height) ==
    LET g == Grid(width, height)
    IN  IF g.err # "none" THEN g
        ELSE SliceLoop(self, world, topX, topY, g.val, 0)

(***************************************************************************)
(* Encoder and equality.                                                   *)
(***************************************************************************)
\* a store into the uint8 array
U8(v) == v % 256

\* the channels written for a visible empty cell; the stores to channels
\* 3, 4, 5 need an array of at least six channels
EncodeEmpty(world) ==
    IF world.encode_dim > 3 /\ world.encode_dim < 6
    THEN Raise("IndexError")
    ELSE Ok([k \in 1..world.encode_dim |->
                IF k = 1 THEN U8(world.OBJECT_TO_IDX["empty"]) ELSE 0])

\* Mutant of EncodeCell: the visibility mask is ignored.
EncodeCell_nomask(world, visible, v) ==
    IF v = None THEN EncodeEmpty(world)
    ELSE Ok([k \in 1..world.encode_dim |-> U8(ObjEncode(world, v)[k])])

\* the body of the loops of encode for one cell: its channels
EncodeCell(world, visible, v) ==
    IF visible
    THEN IF v = None
         THEN EncodeEmpty(world)
         ELSE Ok([k \in 1..world.encode_dim |-> U8(ObjEncode(world, v)[k])])
    ELSE Ok(Zeros(world.encode_dim))

\* Grid.encode(world, vis_mask)
encode(g, world, vis_mask) ==
    LET mask == IF vis_mask = NoArg
                THEN [p \in Coords(g) |-> TRUE]
                ELSE vis_mask[1]
        cell(p) == EncodeCell(world, mask[p], get(g, p[1], p[2]))
    IN  IF \E p \in Coords(g) : cell(p).err # "none"
        THEN Raise("IndexError")
        ELSE Ok([p \in Coords(g) |-> cell(p).val])

\* a call self.encode(*args): world is a required positional parameter
EncodeCall(g, args) ==
    IF Len(args) < 1 THEN Raise("TypeError")
    ELSE encode(g, args[1], IF Len(args) > 1 THEN Some(args[2]) ELSE NoArg)

\* Grid.__eq__: `self.encode()` and `other.encode()`, then np.array_equal
GridEq(self, other) ==
    LET grid1 == EncodeCall(self, <<>>)
        grid2 == EncodeCall(other, <<>>)
    IN  IF grid1.err # "none" THEN grid1
        ELSE IF grid2.err # "none" THEN grid2
        ELSE Ok(grid2.val = grid1.val)

\* Grid.__ne__: `not self == other`
GridNe(self, other) ==
    LET e == GridEq(self, other)
    IN  IF e.err # "none" THEN e ELSE Ok(~e.val)

(***************************************************************************)
(* Tile cache and render_tile.                                             *)
(***************************************************************************)
\* `key = (*highlights, tile_size)`, then
\* `key = obj.encode(world) + key if obj else key`
TileKey(world, obj, highlights, tile_size) ==
    LET key == highlights \o <<tile_size>>
    IN  IF Truthy(obj) THEN ObjEncode(world, obj) \o key ELSE key

\* The pixel block render_tile computes on a miss, by what is drawn into it:
\* the two grid lines, the object's render callback if there is an object, one
\* tint per highlight mark (its colour index modulo the number of colours),
\* downsampled from tile_size * subdivs to tile_size.
Draw(world, obj, highlights, tile_size, subdivs) ==
    [size |-> (tile_size * subdivs) \div subdivs,
     lines |-> TRUE,
     obj |-> obj,
     tints |-> [k \in 1..Len(highlights) |-> highlights[k] % world.ncolors]]

\* Mutant of CacheHit: the cache is never consulted.
CacheHit_never(cache, key) == FALSE

\* `if key in cls.tile_cache`
CacheHit(cache, key) == key \in DOMAIN cache

\* `cls.tile_cache[key] = img`
CachePut(cache, key, img) ==
    [k \in DOMAIN cache \cup {key} |-> IF k = key THEN img ELSE cache[k]]

\* Grid.render_tile: the block returned, the cache afterwards, and whether the
\* object's render callback was invoked
render_tile(cache, world, obj, highlights, tile_size, subdivs) ==
    LET key == TileKey(world, obj, highlights, tile_size)
    IN  IF CacheHit(cache, key)
        THEN [img |-> cache[key], cache |-> cache, rendered |-> FALSE]
        ELSE LET img == Draw(world, obj, highlights, tile_size, subdivs)
             IN  [img |-> img, cache |-> CachePut(cache, key, img),
                  rendered |-> obj # None]

(***************************************************************************)
(* State machine.                                                          *)
(***************************************************************************)
NoCall == [op |-> "none"]

Init ==
    /\ \E w \in MinDim..MaxWidth, h \in MinDim..MaxHeight : grid = Grid(w, h).val
    /\ call = NoCall
    /\ ret = Ok(<<>>)
    /\ old = grid
    /\ tile_cache = <<>>
    /\ done = <<>>

\* grid.set(i, j, v) by the environment building its grid, of at most n objects
SetUpTo(n) ==
    /\ call.op = "none"
    /\ \E p \in Coords(grid), v \in Cells :
          /\ grid' = set(grid, p[1], p[2], v).val
          /\ Cardinality(Occupied(grid')) <= n
          /\ old' = grid'
    /\ UNCHANGED <<call, ret, tile_cache, done>>

Set == SetUpTo(MaxObjs)

SetFew == SetUpTo(MaxFewObjs)

\* mask = grid.process_vis(agent_pos)
ProcessVis ==
    /\ call.op = "none"
    /\ \E agent_pos \in Coords(grid) :
          LET r == process_vis(grid, agent_pos)
          IN  /\ call' = [op |-> "process_vis", agent_pos |-> agent_pos]
              /\ grid' = r.grid
              /\ ret' = Ok(r.mask)
    /\ old' = grid
    /\ UNCHANGED <<tile_cache, done>>

NextVis == Set \/ ProcessVis

SpecVis == Init /\ [][NextVis]_vars

\* the visibility masks handed to encode: none, or the cells left of a column
MaskInputs(g) ==
    {NoArg} \cup {Some([p \in Coords(g) |-> p[1] < a]) : a \in 0..g.width}

\* array = grid.encode(world, vis_mask)
Encode ==
    /\ call.op = "none"
    /\ \E world \in Worlds, vis_mask \in MaskInputs(grid) :
          /\ call' = [op |-> "encode", world |-> world, vis_mask |-> vis_mask]
          /\ ret' = encode(grid, world, vis_mask)
    /\ old' = grid
    /\ UNCHANGED <<grid, tile_cache, done>>

\* grid == other and grid != other, other being a grid of the same dimensions
\* built by its own set calls: the same cells, or one cell different
Eq ==
    /\ call.op = "none"
    /\ \E p \in Coords(grid), v \in Cells :
          LET other == set(grid, p[1], p[2], v).val
          IN  /\ call' = [op |-> "__eq__", other |-> other]
              /\ ret' = [eq |-> GridEq(grid, other), ne |-> GridNe(grid, other)]
    /\ old' = grid
    /\ UNCHANGED <<grid, tile_cache, done>>

NextEncode == SetFew \/ Encode \/ Eq

SpecEncode == Init /\ [][NextEncode]_vars

\* grid = grid.rotate_left(), up to four times in succession
RotateLeft ==
    /\ call.op \in {"none", "rotate_left"}
    /\ call.op = "rotate_left" => (call.n < 4 /\ ret.err = "none")
    /\ LET r == rotate_left(grid)
       IN  /\ ret' = r
           /\ grid' = IF r.err = "none" THEN r.val ELSE grid
    /\ call' = [op |-> "rotate_left",
                n |-> IF call.op = "none" THEN 1 ELSE call.n + 1,
                orig |-> IF call.op = "none" THEN grid ELSE call.orig]
    /\ old' = grid
    /\ UNCHANGED <<tile_cache, done>>

NextRotate == SetFew \/ RotateLeft

SpecRotate == Init /\ [][NextRotate]_vars

\* sub = grid.slice(world, topX, topY, width, height), the region inside the
\* source, across its edges or wholly past them
Slice ==
    /\ call.op = "none"
    /\ \E topX \in (-1)..grid.width, topY \in (-1)..grid.height,
          width \in (MinDim - 1)..MinDim, height \in (MinDim - 1)..MinDim :
          /\ call' = [op |-> "slice", topX |-> topX, topY |-> topY,
                      width |-> width, height |-> height]
          /\ ret' = slice(grid, CHOOSE world \in Worlds : TRUE,
                          topX, topY, width, height)
    /\ old' = grid
    /\ UNCHANGED <<grid, tile_cache, done>>

NextSlice == SetFew \/ Slice

SpecSlice == Init /\ [][NextSlice]_vars

\* grid.horz_wall(world, x, y, length)
HorzWall ==
    /\ call.op = "none"
    /\ \E p \in Coords(grid), length \in {NoArg} \cup {Some(n) : n \in 1..grid.width} :
          LET r == horz_wall(grid, WorldArg(CHOOSE world \in Worlds : TRUE),
                             p[1], p[2], length, FALSE)
          IN  /\ call' = [op |-> "horz_wall", x |-> p[1], y |-> p[2], length |-> length]
              /\ ret' = r.err
              /\ grid' = r.g
    /\ old' = grid
    /\ UNCHANGED <<tile_cache, done>>

\* grid.vert_wall(world, x, y, length)
VertWall ==
    /\ call.op = "none"
    /\ \E p \in Coords(grid), length \in {NoArg} \cup {Some(n) : n \in 1..grid.height} :
          LET r == vert_wall(grid, WorldArg(CHOOSE world \in Worlds : TRUE),
                             p[1], p[2], length, FALSE)
          IN  /\ call' = [op |-> "vert_wall", x |-> p[1], y |-> p[2], length |-> length]
              /\ ret' = r.err
              /\ grid' = r.g
    /\ old' = grid
    /\ UNCHANGED <<tile_cache, done>>

\* the rectangle (x, y, w, h) fits inside grid g
Fits(g, x, y, w, h) ==
    x >= 0 /\ y >= 0 /\ w >= 1 /\ h >= 1 /\ x + w <= g.width /\ y + h <= g.height

\* grid.wall_rect(x, y, w, h) for a rectangle that fits inside the grid
WallRect ==
    /\ call.op = "none"
    /\ \E p \in Coords(grid), w \in 1..grid.width, h \in 1..grid.height,
          lenient \in BOOLEAN :
          /\ Fits(grid, p[1], p[2], w, h)
          /\ LET r == wall_rect(grid, p[1], p[2], w, h, lenient)
             IN  /\ call' = [op |-> "wall_rect", x |-> p[1], y |-> p[2],
                             w |-> w, h |-> h]
                 /\ ret' = r.err
                 /\ grid' = r.g
    /\ old' = grid
    /\ UNCHANGED <<tile_cache, done>>

NextWall == SetFew \/ HorzWall \/ VertWall \/ WallRect

SpecWall == Init /\ [][NextWall]_vars

\* Inputs of render_tile: the world of the process, highlight marks (colour
\* indices: none, one, or as many as an object encoding has channels), tile
\* sizes.
RenderWorlds == {w \in Worlds : w.encode_dim = 3 /\ w.OBJECT_TO_IDX["empty"] = 0}
Marks == {0, 1}
HighlightLists(world) == UNION {[1..n -> Marks] : n \in {0, 1, world.encode_dim}}
TileSizes == {16, 32}

\* Grid.render_tile(world, obj, highlights, tile_size). `done` records, for
\* every request completed so far, the block its first call returned.
RenderTile ==
    /\ call.op \in {"none", "render_tile"}
    /\ \E world \in RenderWorlds, obj \in Cells, tile_size \in TileSizes :
       \E highlights \in HighlightLists(world) :
          LET req == [world |-> world, obj |-> obj, highlights |-> highlights,
                      tile_size |-> tile_size]
              seen == req \in DOMAIN done
              r == render_tile(tile_cache, world, obj, highlights, tile_size,
                               DefaultSubdivs)
          IN  /\ seen \/ Cardinality(DOMAIN done) < MaxCalls
              /\ call' = [op |-> "render_tile", req |-> req,
                          prev |-> IF seen THEN Some(done[req]) ELSE NoArg,
                          between |-> call.op = "render_tile" /\ call.req # req]
              /\ ret' = [img |-> r.img, rendered |-> r.rendered]
              /\ tile_cache' = r.cache
              /\ done' = IF seen THEN done
                         ELSE [q \in DOMAIN done \cup {req} |->
                                  IF q = req THEN r.img ELSE done[q]]
    /\ UNCHANGED <<grid, old>>

\* the tile cache of a fresh process; the grid plays no part
InitRender == Init /\ grid = Grid(MinDim, MinDim).val

NextRender == RenderTile

SpecRender == InitRender /\ [][NextRender]_vars

(***************************************************************************)
(* Claims about process_vis, under SpecVis.                                *)
(***************************************************************************)
AfterVis == call.op = "process_vis"

\* C1: after process_vis returns mask M for an in-bounds observer, M[observer]
\* is true, every cell with M false is empty in the caller's grid, and every
\* cell with M true holds exactly the content it held before the call.
C1_ProcessVisFrame ==
    AfterVis =>
        /\ grid.width = old.width /\ grid.height = old.height
        /\ DOMAIN ret.val = Coords(old)
        /\ ret.val[call.agent_pos]
        /\ \A p \in Coords(old) :
              /\ ~ret.val[p] => get(grid, p[1], p[2]) = None
              /\ ret.val[p] => get(grid, p[1], p[2]) = get(old, p[1], p[2])

\* C1 witness: a call that pruned an object and kept another one.
C1_Witness ==
    /\ AfterVis
    /\ \E p \in Coords(old) : ~ret.val[p] /\ get(old, p[1], p[2]) # None
    /\ \E p \in Coords(old) : ret.val[p] /\ get(grid, p[1], p[2]) # None

\* The grid of C2: its only occupied cell is an opaque object directly above
\* the observer.
OpaqueAbove ==
    /\ AfterVis
    /\ Occupied(old) = {<<call.agent_pos[1], call.agent_pos[2] - 1>>}
    /\ \A p \in Occupied(old) : Blocks(get(old, p[1], p[2]))

\* C2 as stated: with a single opaque object directly above the observer, the
\* cells of the observer's column beyond the object are not marked visible,
\* while the adjacent columns and the opaque cell itself are marked visible.
C2_Original ==
    OpaqueAbove =>
        LET ox == call.agent_pos[1]
            oy == call.agent_pos[2]
        IN  /\ \A p \in Coords(old) : (p[1] = ox /\ p[2] < oy - 1) => ~ret.val[p]
            /\ ret.val[<<ox, oy - 1>>]
            /\ \A p \in Coords(old) :
                  (p[1] \in {ox - 1, ox + 1} /\ p[2] <= oy) => ret.val[p]

\* C2 amended: with a single opaque object directly above the observer, the
\* opaque cell and the adjacent columns are marked visible, and the cells of
\* the observer's column beyond the object are marked visible too (by diagonal
\* propagation from the adjacent columns): the cells marked visible are exactly
\* those of the rows y <= observer.y.
C2_Amended ==
    OpaqueAbove =>
        \A p \in Coords(old) : ret.val[p] <=> p[2] <= call.agent_pos[2]

\* C2 witness: the opaque object is directly above the observer and the
\* observer's column has a cell beyond it.
C2_Witness == OpaqueAbove /\ call.agent_pos[2] >= 2

\* The cells a visible cell (a, b) can have been marked from.
Origins(g, p) ==
    {<<p[1] - 1, p[2]>>, <<p[1] + 1, p[2]>>, <<p[1] - 1, p[2] + 1>>,
     <<p[1], p[2] + 1>>, <<p[1] + 1, p[2] + 1>>} \cap Coords(g)

\* C10: in the mask returned by process_vis, every visible cell other than the
\* observer's has a visible cell that is empty or non-opaque among (a-1,b),
\* (a+1,b), (a-1,b+1), (a,b+1), (a+1,b+1), and every row with y greater than
\* the observer's row is entirely false.
C10_PropagationOrigin ==
    AfterVis =>
        /\ \A p \in Coords(old) :
              (ret.val[p] /\ p # call.agent_pos) =>
                  \E q \in Origins(old, p) :
                      /\ ret.val[q]
                      /\ (get(old, q[1], q[2]) = None \/ see_behind(get(old, q[1], q[2])))
        /\ \A p \in Coords(old) : p[2] > call.agent_pos[2] => ~ret.val[p]

\* C10 witness: a visible opaque cell other than the observer's, a cell left
\* invisible in a swept row at or above the observer, and a row below.
C10_Witness ==
    /\ AfterVis
    /\ call.agent_pos[2] < old.height - 1
    /\ \E p \in Coords(old) :
          /\ p # call.agent_pos /\ ret.val[p]
          /\ get(old, p[1], p[2]) = "wall"
    /\ \E p \in Coords(old) : p[2] <= call.agent_pos[2] /\ ~ret.val[p]

(***************************************************************************)
(* Claims about encode and equality, under SpecEncode.                     *)
(***************************************************************************)
AfterEncode == call.op = "encode"

VisibleIn(g, vis_mask, p) == vis_mask = NoArg \/ vis_mask[1][p]

C8_EqualityByEncoding ==
    call.op = "__eq__" =>
        LET same == \A world \in Worlds :
                        encode(grid, world, NoArg) = encode(call.other, world, NoArg)
        IN  /\ ret.eq = Ok(same)
            /\ ret.ne = Ok(~same)

(***************************************************************************)
(* Claims about the geometry operations.                                   *)
(***************************************************************************)
\* C4: each rotate_left swaps width and height and places source cell (i, j)
\* at (j, new_height - 1 - i); four in succession yield a grid of the original
\* width and height whose every cell holds the original's content, equal to
\* the original by encoding.
C4_RotateLeft ==
    call.op = "rotate_left" =>
        /\ ret.err = "none"
        /\ grid.width = old.height /\ grid.height = old.width
        /\ Len(grid.grid) = grid.width * grid.height
        /\ \A p \in Coords(old) :
              get(grid, p[2], grid.height - 1 - p[1]) = get(old, p[1], p[2])
        /\ call.n = 4 =>
              /\ grid.width = call.orig.width /\ grid.height = call.orig.height
              /\ \A p \in Coords(call.orig) :
                    get(grid, p[1], p[2]) = get(call.orig, p[1], p[2])
              /\ \A world \in Worlds :
                    encode(grid, world, NoArg) = encode(call.orig, world, NoArg)

\* C4 witness: the fourth rotation of a grid that is not square and holds an
\* object.
C4_Witness ==
    /\ call.op = "rotate_left" /\ call.n = 4
    /\ call.orig.width # call.orig.height
    /\ Occupied(call.orig) # {}

\* what C5 says slice returns: a width-by-height grid whose cell (i, j) is the
\* source's cell (topX + i, topY + j) inside the source, a wall outside
SliceResultOk ==
    /\ ret.err = "none"
    /\ ret.val.width = call.width /\ ret.val.height = call.height
    /\ Len(ret.val.grid) = call.width * call.height
    /\ \A q \in Coords(ret.val) :
          LET x == call.topX + q[1]
              y == call.topY + q[2]
          IN  get(ret.val, q[1], q[2]) =
                  IF InBounds(old, x, y) THEN get(old, x, y) ELSE "wall"
    /\ grid = old

\* C5 as stated: for every source grid and every requested region, also one
\* partly or wholly past the source's edges, slice does not fail and returns
\* that grid.
C5_Original == call.op = "slice" => SliceResultOk

\* C5 amended: the same for every requested region of width >= 3 and
\* height >= 3; a region narrower or lower than 3 fails the assertion of the
\* Grid constructor.
C5_Amended ==
    call.op = "slice" =>
        IF call.width >= MinDim /\ call.height >= MinDim
        THEN SliceResultOk
        ELSE ret.err = "AssertionError" /\ grid = old

\* C5 witness: a slice across the source's edge that took an object of the
\* source and walls from outside it.
C5_Witness ==
    /\ call.op = "slice" /\ ret.err = "none"
    /\ \E q \in Coords(ret.val) :
          /\ InBounds(old, call.topX + q[1], call.topY + q[2])
          /\ get(ret.val, q[1], q[2]) = "ball"
    /\ \E q \in Coords(ret.val) : ~InBounds(old, call.topX + q[1], call.topY + q[2])

\* the cells on the four edges of the rectangle (x, y, w, h)
OnEdge(p, x, y, w, h) ==
    /\ p[1] >= x /\ p[1] <= x + w - 1 /\ p[2] >= y /\ p[2] <= y + h - 1
    /\ (p[1] = x \/ p[1] = x + w - 1 \/ p[2] = y \/ p[2] = y + h - 1)

\* C9: for a rectangle that fits inside the grid, wall_rect sets exactly the
\* cells of the rectangle's four edges to walls and leaves every other cell,
\* the interior included, unchanged.
C9_WallRect ==
    call.op = "wall_rect" =>
        /\ ret = "none"
        /\ \A p \in Coords(old) :
              get(grid, p[1], p[2]) =
                  IF OnEdge(p, call.x, call.y, call.w, call.h)
                  THEN "wall" ELSE get(old, p[1], p[2])

(***************************************************************************)
(* Claims about the tile cache, under SpecRender.                          *)
(***************************************************************************)
\* C6: once a render_tile call with given (object or empty, highlight marks,
\* tile size) has completed, every later call with identical arguments returns
\* that same block without invoking the object's render callback, whatever
\* calls happen in between; cache entries are only ever added, never evicted
\* or replaced.
C6_CacheStable ==
    /\ [](call.op = "render_tile" /\ call.prev # NoArg =>
            ret.img = call.prev[1] /\ ~ret.rendered)
    /\ [][\A k \in DOMAIN tile_cache :
            k \in DOMAIN tile_cache' /\ tile_cache'[k] = tile_cache[k]]_vars

\* C6 witness: a request with an object repeated after a different request.
C6_Witness ==
    /\ call.op = "render_tile"
    /\ call.prev # NoArg
    /\ call.between
    /\ call.req.obj # None

\* what a request renders of its cell: nothing, or the object's encoding
Content(req) == IF req.obj = None THEN <<>> ELSE ObjEncode(req.world, req.obj)

\* C7: no two render_tile requests that differ in cell content (empty versus
\* occupied, or different object encodings), in highlight marks or in tile
\* size are mapped to the same cache key, so a cached tile is never returned
\* for a request that would render differently.
C7_KeyInjective ==
    /\ \A r1, r2 \in DOMAIN done :
          (\/ Content(r1) # Content(r2)
           \/ r1.highlights # r2.highlights
           \/ r1.tile_size # r2.tile_size) =>
              TileKey(r1.world, r1.obj, r1.highlights, r1.tile_size)
                  # TileKey(r2.world, r2.obj, r2.highlights, r2.tile_size)
    /\ call.op = "render_tile" =>
          ret.img = Draw(call.req.world, call.req.obj, call.req.highlights,
                         call.req.tile_size, DefaultSubdivs)

====
